---- MODULE Spec2Model ----
(***************************************************************************)
(* Game of Life state model (gamestate.py): the Cell (value, alive time,   *)
(* change signal), the Grid (neighbour counting, two-phase update, reset,  *)
(* cell access) and the state loop that updates the grid in a background   *)
(* thread while the foreground resets or restores cells.                   *)
(***************************************************************************)
EXTENDS Integers, Sequences, FiniteSets

VARIABLES
    rows,            \* Grid._rows
    cols,            \* Grid._cols
    cells,           \* Grid._cells: <<row, col>> -> [value, alive_time]
    sleep,           \* Grid._sleep, in milliseconds
    op,              \* name of the operation that produced this state
    emitted,         \* cell_changed signals emitted by that operation, in order
    result,          \* arguments and value returned (or exception raised) by it
    pre,             \* the grid on entry of that operation
    gen,             \* number of consecutive update_grid calls just made
    survived,        \* per cell, how many of those calls in a row it has survived
    window_event,    \* events.window_event: the main window is present
    game_event,      \* events.game_event: the game is not paused
    loop_pc,         \* where the thread running Grid.state_loop is
    list_of_changes, \* update_grid's list_of_changes in that thread
    idx,             \* position of the loop that thread is in (from 1)
    fg_pc,           \* where the foreground (GUI) thread is
    fg_idx           \* position in the grid of the cell it is working on

obsVars == <<op, emitted, result, pre, gen, survived>>
threadVars == <<window_event, game_event, loop_pc, list_of_changes, idx, fg_pc, fg_idx>>
vars == <<rows, cols, cells, sleep, op, emitted, result, pre, gen, survived,
          window_event, game_event, loop_pc, list_of_changes, idx, fg_pc, fg_idx>>

----------------------------------------------------------------------------
(* Bounds of the model *)

\* Spec: a grid has at most MaxSide rows, MaxSide columns and MaxCells cells,
\* alive times are capped at MaxTime
MaxSide == 2
MaxCells == 4
MaxTime == 1
\* longest run of consecutive update_grid calls
MaxGen == 3
\* SpecGen: a grid has at most GenSide rows, GenSide columns and GenCells
\* cells, alive times are capped at GenTime
GenSide == 3
GenCells == 9
GenTime == 2
\* SpecBlinker: a grid has up to BlinkerPad rows more than 3 and columns more than 5
BlinkerPad == 2
\* SpecAccess: get_cell is called with indices up to IndexPad beyond the
\* grid on either side
IndexPad == 1
\* SpecRace: grids of at most RaceSide rows and columns and RaceCells cells
RaceSide == 3
RaceCells == 3
\* SpecLoop: single rows and single columns of at most LoopCells cells
LoopCells == 3
\* SpecRate: set_sleep is called with 1 to MaxFps frames per second
MaxFps == 120

None == [kind |-> "none"]

Coords(nr, nc) == (0 .. nr - 1) \X (0 .. nc - 1)

Dims(maxSide, maxCells) ==
    {d \in (1 .. maxSide) \X (1 .. maxSide) : d[1] * d[2] <= maxCells}

----------------------------------------------------------------------------
(* Cell *)

\* Cell.__init__: a dead cell with no alive time
NewCell == [value |-> 0, alive_time |-> 0]

\* Cell.get_value
get_value(self) == self.value

\* Cell.get_time
get_time(self) == self.alive_time

\* A call of a Cell method: the cell afterwards and the signals it emitted
Call(self, emit) == [self |-> self, emit |-> emit]

\* Cell.reset_time: the alive time back to 0, no signal
reset_time(self) == Call([self EXCEPT !.alive_time = 0], <<>>)

\* toggle_value without the reset of the alive time of a cell that died
toggle_value_keeps_time(self) ==
    LET flipped == [self EXCEPT !.value = IF self.value = 0 THEN 1 ELSE 0]
    IN [self |-> flipped,
        emit |-> <<[value |-> flipped.value, alive_time |-> flipped.alive_time]>>]

\* toggle_value that signals before it resets the alive time
toggle_value_signals_first(self) ==
    LET flipped == [self EXCEPT !.value = IF self.value = 0 THEN 1 ELSE 0]
        after == IF flipped.value = 0 THEN reset_time(flipped).self ELSE flipped
    IN [self |-> after,
        emit |-> <<[value |-> flipped.value, alive_time |-> flipped.alive_time]>>]

\* Cell.toggle_value: flip the value, reset the time of a cell that died,
\* then signal the new (value, alive time)
toggle_value(self) ==
    LET flipped == [self EXCEPT !.value = IF self.value = 0 THEN 1 ELSE 0]
        after == IF flipped.value = 0 THEN reset_time(flipped).self ELSE flipped
    IN Call(after, <<[value |-> after.value, alive_time |-> after.alive_time]>>)

\* increase_time that signals without counting
increase_time_signal_only(self) ==
    [self |-> self,
     emit |-> <<[value |-> self.value, alive_time |-> self.alive_time]>>]

\* increase_time that counts two units at a time
increase_time_by_two(self) ==
    LET after == [self EXCEPT !.alive_time = self.alive_time + 2]
    IN [self |-> after,
        emit |-> <<[value |-> after.value, alive_time |-> after.alive_time]>>]

\* Cell.increase_time: one more unit of alive time, then signal
increase_time(self) ==
    LET after == [self EXCEPT !.alive_time = self.alive_time + 1]
    IN Call(after, <<[value |-> after.value, alive_time |-> after.alive_time]>>)

\* set_time that signals the change
set_time_with_signal(self, value) ==
    [self |-> [self EXCEPT !.alive_time = value],
     emit |-> <<[value |-> self.value, alive_time |-> value]>>]

\* Cell.set_time: the alive time set to a given value, no signal
set_time(self, value) == Call([self EXCEPT !.alive_time = value], <<>>)

----------------------------------------------------------------------------
(* Grid *)

\* Grid.__init__: rows x cols new cells
NewGrid(nr, nc) == [rc \in Coords(nr, nc) |-> NewCell]

\* The signals of a call on the cell at rc, tagged with the cell they come from
Tagged(rc, emit) ==
    [i \in 1 .. Len(emit) |->
        [row |-> rc[1], col |-> rc[2],
         value |-> emit[i].value, alive_time |-> emit[i].alive_time]]

\* A grid being mutated: the cells and the signals emitted so far
Mutate(g, rc, call) ==
    [cells |-> [g.cells EXCEPT ![rc] = call.self],
     out |-> g.out \o Tagged(rc, call.emit)]

\* alive_neighbors on a grid whose edges wrap around
alive_neighbors_wrap(g, nr, nc, row, col) ==
    LET at(dr, dc) == get_value(g[<<(row + dr) % nr, (col + dc) % nc>>])
    IN at(-1, 0) + at(-1, -1) + at(-1, 1) + at(1, 0) + at(1, -1) + at(1, 1)
       + at(0, -1) + at(0, 1)

\* alive_neighbors without the four diagonal reads
alive_neighbors_orthogonal(g, nr, nc, row, col) ==
    (IF row > 0 THEN get_value(g[<<row - 1, col>>]) ELSE 0)
    + (IF row < nr - 1 THEN get_value(g[<<row + 1, col>>]) ELSE 0)
    + (IF col > 0 THEN get_value(g[<<row, col - 1>>]) ELSE 0)
    + (IF col < nc - 1 THEN get_value(g[<<row, col + 1>>]) ELSE 0)

\* Grid.alive_neighbors: the eight guarded reads of the code, in its order
alive_neighbors(g, nr, nc, row, col) ==
    LET above ==
            IF row > 0
            THEN get_value(g[<<row - 1, col>>])
                 + (IF col > 0 THEN get_value(g[<<row - 1, col - 1>>]) ELSE 0)
                 + (IF col < nc - 1 THEN get_value(g[<<row - 1, col + 1>>]) ELSE 0)
            ELSE 0
        below ==
            IF row < nr - 1
            THEN get_value(g[<<row + 1, col>>])
                 + (IF col > 0 THEN get_value(g[<<row + 1, col - 1>>]) ELSE 0)
                 + (IF col < nc - 1 THEN get_value(g[<<row + 1, col + 1>>]) ELSE 0)
            ELSE 0
        left == IF col > 0 THEN get_value(g[<<row, col - 1>>]) ELSE 0
        right == IF col < nc - 1 THEN get_value(g[<<row, col + 1>>]) ELSE 0
    IN above + below + left + right

\* A Python list subscript list[i] on a list of n items: the position read,
\* counted from 0, or -1 where Python raises IndexError.  A negative i counts
\* from the end of the list.
Subscript(i, n) ==
    IF 0 <= i /\ i < n THEN i
    ELSE IF -n <= i /\ i < 0 THEN n + i
    ELSE -1

\* Grid.get_cell: self._cells[row][col], the cell read or the IndexError
get_cell(g, nr, nc, row, col) ==
    LET r == Subscript(row, nr)
        c == Subscript(col, nc)
    IN IF r = -1 \/ c = -1
       THEN [kind |-> "IndexError", row |-> row, col |-> col]
       ELSE [kind |-> "cell", row |-> row, col |-> col, at |-> <<r, c>>,
             cell |-> g[<<r, c>>]]

\* The order of the nested loops "for row ... for col ..."
RowMajor(nr, nc) ==
    [i \in 1 .. nr * nc |-> <<(i - 1) \div nc, (i - 1) % nc>>]

\* Classify with a birth for 2 alive neighbours
ClassifyBirthAtTwo(g, nr, nc, rc) ==
    LET cell_neighbors == alive_neighbors(g, nr, nc, rc[1], rc[2])
    IN IF get_value(g[rc]) # 0
       THEN IF cell_neighbors \in {2, 3} THEN "survival" ELSE "death"
       ELSE IF get_value(g[rc]) = 0 /\ cell_neighbors = 2 THEN "birth" ELSE "none"

\* Compute phase of update_grid, one cell: the list it is appended to
Classify(g, nr, nc, rc) ==
    LET cell_neighbors == alive_neighbors(g, nr, nc, rc[1], rc[2])
    IN IF get_value(g[rc]) # 0
       THEN IF cell_neighbors \in {2, 3} THEN "survival" ELSE "death"
       ELSE IF get_value(g[rc]) = 0 /\ cell_neighbors = 3 THEN "birth" ELSE "none"

\* Compute phase of update_grid: the three lists, each in loop order
ListOfChanges(g, nr, nc) ==
    [kind \in {"birth", "survival", "death"} |->
        SelectSeq(RowMajor(nr, nc), LAMBDA rc : Classify(g, nr, nc, rc) = kind)]

\* CommitOne that only resets the alive time of a dying cell
CommitOneDeathKeepsValue(g, kind, rc) ==
    IF kind = "birth" THEN Mutate(g, rc, toggle_value(g.cells[rc]))
    ELSE IF kind = "survival" THEN Mutate(g, rc, increase_time(g.cells[rc]))
    ELSE Mutate(g, rc, reset_time(g.cells[rc]))

\* Commit phase of update_grid, one entry of one list
CommitOne(g, kind, rc) ==
    IF kind = "birth" THEN Mutate(g, rc, toggle_value(g.cells[rc]))
    ELSE IF kind = "survival" THEN Mutate(g, rc, increase_time(g.cells[rc]))
    ELSE LET toggled == Mutate(g, rc, toggle_value(g.cells[rc]))
         IN Mutate(toggled, rc, reset_time(toggled.cells[rc]))

\* Commit phase of update_grid, one list from its i-th entry on
RECURSIVE Commit(_, _, _, _)
Commit(g, kind, list, i) ==
    IF i > Len(list) THEN g
    ELSE Commit(CommitOne(g, kind, list[i]), kind, list, i + 1)

\* update_grid that changes each cell as soon as it is classified, so that
\* later cells count neighbours of the next generation
RECURSIVE UpdateInPlaceFrom(_, _, _, _, _)
UpdateInPlaceFrom(g, nr, nc, order, i) ==
    IF i > Len(order) THEN g
    ELSE LET kind == Classify(g.cells, nr, nc, order[i])
         IN UpdateInPlaceFrom(IF kind = "none" THEN g ELSE CommitOne(g, kind, order[i]),
                              nr, nc, order, i + 1)

update_grid_in_place(g, nr, nc) ==
    UpdateInPlaceFrom([cells |-> g, out |-> <<>>], nr, nc, RowMajor(nr, nc), 1)

\* update_grid that also resets the alive time of the dead cells it leaves dead
update_grid_clears_dead(g, nr, nc) ==
    LET lists == ListOfChanges(g, nr, nc)
        start == [cells |-> g, out |-> <<>>]
        born == Commit(start, "birth", lists["birth"], 1)
        kept == Commit(born, "survival", lists["survival"], 1)
        done == Commit(kept, "death", lists["death"], 1)
    IN [cells |-> [rc \in DOMAIN g |->
                      IF Classify(g, nr, nc, rc) = "none"
                      THEN reset_time(done.cells[rc]).self
                      ELSE done.cells[rc]],
        out |-> done.out]

\* update_grid that commits the deaths first and the births last
update_grid_deaths_first(g, nr, nc) ==
    LET lists == ListOfChanges(g, nr, nc)
        start == [cells |-> g, out |-> <<>>]
        died == Commit(start, "death", lists["death"], 1)
        kept == Commit(died, "survival", lists["survival"], 1)
    IN Commit(kept, "birth", lists["birth"], 1)

\* Grid.update_grid: classify every cell, then births, survivals, deaths
update_grid(g, nr, nc) ==
    LET lists == ListOfChanges(g, nr, nc)
        start == [cells |-> g, out |-> <<>>]
        born == Commit(start, "birth", lists["birth"], 1)
        kept == Commit(born, "survival", lists["survival"], 1)
    IN Commit(kept, "death", lists["death"], 1)

\* the loop of reset without its test "if cell.get_value() == 1"
RECURSIVE ResetFromToggleAll(_, _, _)
ResetFromToggleAll(g, order, i) ==
    IF i > Len(order) THEN g
    ELSE ResetFromToggleAll(Mutate(g, order[i], toggle_value(g.cells[order[i]])),
                            order, i + 1)

\* Grid.reset, the loop from the i-th cell on: toggle the cells that are alive
RECURSIVE ResetFrom(_, _, _)
ResetFrom(g, order, i) ==
    IF i > Len(order) THEN g
    ELSE LET cell == g.cells[order[i]]
         IN ResetFrom(IF get_value(cell) = 1
                      THEN Mutate(g, order[i], toggle_value(cell))
                      ELSE g,
                      order, i + 1)

\* Grid.reset
reset(g, nr, nc) == ResetFrom([cells |-> g, out |-> <<>>], RowMajor(nr, nc), 1)

----------------------------------------------------------------------------
(* The sleep time of the grid.  _sleep is a float of seconds with at most  *)
(* three decimals; the model holds it in milliseconds.                     *)

\* 2^e modulo n, by repeated doubling
RECURSIVE PowMod(_, _)
PowMod(e, n) == IF e = 0 THEN 1 % n ELSE (2 * PowMod(e - 1, n)) % n

\* The least k with 2^k >= n
RECURSIVE Log2Up(_, _, _)
Log2Up(n, k, p) == IF p >= n THEN k ELSE Log2Up(n, k + 1, 2 * p)

\* The float 1/fps is the multiple of 2^-e nearest to the quotient, with a
\* mantissa of 53 bits (e = 52 + Log2Up): -1 when it lies below the
\* quotient, 1 when above, 0 when the quotient is a float
FloatError(fps) ==
    LET r == PowMod(52 + Log2Up(fps, 0, 1), fps)
    IN IF r = 0 THEN 0 ELSE IF 2 * r < fps THEN -1 ELSE 1

\* the thousandths of 1/fps cut off instead of rounded
TruncMillis(fps) == 1000 \div fps

\* round(x, 3) of the float x = 1/fps, in thousandths: the nearest
\* thousandth of the value the float holds, the even one when that value is
\* half way
RoundMillis(fps) ==
    LET q == 1000 \div fps
        r == 1000 % fps
    IN IF 2 * r < fps THEN q
       ELSE IF 2 * r > fps THEN q + 1
       ELSE IF FloatError(fps) < 0 THEN q
       ELSE IF FloatError(fps) > 0 THEN q + 1
       ELSE IF q % 2 = 0 THEN q ELSE q + 1

\* Grid.set_sleep: _sleep = round(1/fps, 3)
set_sleep(fps) == RoundMillis(fps)

\* Grid.get_sleep
get_sleep(s) == s

\* the sleep time set_sleep sets for 30 frames per second
SleepOfThirty == set_sleep(30)

\* Grid.__init__ line 23: _sleep = 0.03
NewSleep == 30

----------------------------------------------------------------------------
(* Operations on a grid, each call one step *)

\* No cell has survived an update_grid call of the current run of calls
NoneSurvived == [rc \in Coords(rows, cols) |-> 0]

\* get_cell(row, col).toggle_value()
ToggleValue(rc) ==
    LET call == toggle_value(cells[rc])
    IN /\ cells' = [cells EXCEPT ![rc] = call.self]
       /\ emitted' = Tagged(rc, call.emit)
       /\ op' = "toggle_value"
       /\ pre' = cells
       /\ gen' = 0
       /\ survived' = NoneSurvived
       /\ result' = None
       /\ UNCHANGED <<rows, cols, sleep>>
       /\ UNCHANGED threadVars

\* get_cell(row, col).increase_time()
IncreaseTime(rc, cap) ==
    LET call == increase_time(cells[rc])
    IN /\ cells[rc].alive_time < cap
       /\ cells' = [cells EXCEPT ![rc] = call.self]
       /\ emitted' = Tagged(rc, call.emit)
       /\ op' = "increase_time"
       /\ pre' = cells
       /\ gen' = 0
       /\ survived' = NoneSurvived
       /\ result' = None
       /\ UNCHANGED <<rows, cols, sleep>>
       /\ UNCHANGED threadVars

\* get_cell(row, col).set_time(value)
SetTime(rc, value) ==
    LET call == set_time(cells[rc], value)
    IN /\ cells' = [cells EXCEPT ![rc] = call.self]
       /\ emitted' = Tagged(rc, call.emit)
       /\ op' = "set_time"
       /\ pre' = cells
       /\ gen' = 0
       /\ survived' = NoneSurvived
       /\ result' = [kind |-> "set_time", row |-> rc[1], col |-> rc[2], value |-> value]
       /\ UNCHANGED <<rows, cols, sleep>>
       /\ UNCHANGED threadVars

\* get_cell(row, col).reset_time()
ResetTime(rc) ==
    LET call == reset_time(cells[rc])
    IN /\ cells' = [cells EXCEPT ![rc] = call.self]
       /\ emitted' = Tagged(rc, call.emit)
       /\ op' = "reset_time"
       /\ pre' = cells
       /\ gen' = 0
       /\ survived' = NoneSurvived
       /\ result' = None
       /\ UNCHANGED <<rows, cols, sleep>>
       /\ UNCHANGED threadVars

\* Grid.update_grid()
UpdateGrid(cap) ==
    \E g \in {update_grid(cells, rows, cols)} :
       /\ gen < MaxGen
       /\ \A rc \in Coords(rows, cols) : g.cells[rc].alive_time <= cap
       /\ cells' = g.cells
       /\ emitted' = g.out
       /\ op' = "update_grid"
       /\ pre' = cells
       /\ gen' = gen + 1
       /\ survived' = [rc \in Coords(rows, cols) |->
                           IF cells[rc].value = 1 /\ g.cells[rc].value = 1
                           THEN survived[rc] + 1 ELSE 0]
       /\ result' = None
       /\ UNCHANGED <<rows, cols, sleep>>
       /\ UNCHANGED threadVars

\* Grid.reset()
Reset ==
    \E g \in {reset(cells, rows, cols)} :
       /\ cells' = g.cells
       /\ emitted' = g.out
       /\ op' = "reset"
       /\ pre' = cells
       /\ gen' = 0
       /\ survived' = NoneSurvived
       /\ result' = None
       /\ UNCHANGED <<rows, cols, sleep>>
       /\ UNCHANGED threadVars

\* Grid.set_sleep(fps)
SetSleep(fps) ==
    /\ sleep' = set_sleep(fps)
    /\ result' = [kind |-> "set_sleep", fps |-> fps]
    /\ op' = "set_sleep"
    /\ emitted' = <<>>
    /\ UNCHANGED <<rows, cols, cells, pre, gen, survived>>
    /\ UNCHANGED threadVars

\* Grid.get_sleep()
GetSleep ==
    /\ result' = [kind |-> "sleep", sleep |-> get_sleep(sleep)]
    /\ op' = "get_sleep"
    /\ emitted' = <<>>
    /\ UNCHANGED <<rows, cols, sleep, cells, pre, gen, survived>>
    /\ UNCHANGED threadVars

\* Grid.alive_neighbors(row, col)
AliveNeighbors(row, col) ==
    /\ result' = [kind |-> "count", row |-> row, col |-> col,
                  count |-> alive_neighbors(cells, rows, cols, row, col)]
    /\ op' = "alive_neighbors"
    /\ emitted' = <<>>
    /\ UNCHANGED <<rows, cols, sleep, cells, pre, gen, survived>>
    /\ UNCHANGED threadVars

\* Grid.get_cell(row, col)
GetCell(row, col) ==
    /\ result' = get_cell(cells, rows, cols, row, col)
    /\ op' = "get_cell"
    /\ emitted' = <<>>
    /\ UNCHANGED <<rows, cols, sleep, cells, pre, gen, survived>>
    /\ UNCHANGED threadVars

----------------------------------------------------------------------------
(* Spec: the operations of Cell and Grid on a freshly constructed grid *)

\* No call has been observed yet
NothingObserved ==
    /\ op = "init"
    /\ emitted = <<>>
    /\ result = None
    /\ pre = cells
    /\ gen = 0
    /\ survived = NoneSurvived

\* update_grid line 103: the three empty lists
NoChanges == [kind \in {"birth", "survival", "death"} |-> <<>>]

\* No thread is running: the operations are called one after the other
NoThreads ==
    /\ window_event = TRUE
    /\ game_event = FALSE
    /\ loop_pc = "not started"
    /\ list_of_changes = NoChanges
    /\ idx = 0
    /\ fg_pc = "idle"
    /\ fg_idx = 0

Fresh(dims) ==
    /\ \E d \in dims : rows = d[1] /\ cols = d[2]
    /\ cells = NewGrid(rows, cols)
    /\ sleep = NewSleep
    /\ NothingObserved

Init == Fresh(Dims(MaxSide, MaxCells)) /\ NoThreads

Next ==
    \/ \E rc \in Coords(rows, cols) : ToggleValue(rc)
    \/ \E rc \in Coords(rows, cols) : IncreaseTime(rc, MaxTime)
    \/ \E rc \in Coords(rows, cols) : \E value \in 0 .. MaxTime : SetTime(rc, value)
    \/ \E rc \in Coords(rows, cols) : ResetTime(rc)
    \/ UpdateGrid(MaxTime)
    \/ Reset
    \/ GetSleep

Spec == Init /\ [][Next]_vars

----------------------------------------------------------------------------
(* SpecGen: generations computed from any population.  Every population    *)
(* is one the operations of Spec can set up on a fresh grid: any cell can  *)
(* be made alive or dead by toggle_value and given any alive time by       *)
(* set_time.  Here the alive cells start with one alive time and the dead  *)
(* cells with another.                                                     *)

Population(nr, nc, alive, aliveTime, deadTime) ==
    [rc \in Coords(nr, nc) |->
        IF rc \in alive
        THEN [value |-> 1, alive_time |-> aliveTime]
        ELSE [value |-> 0, alive_time |-> deadTime]]

GenInit ==
    /\ \E d \in Dims(GenSide, GenCells) : rows = d[1] /\ cols = d[2]
    /\ \E alive \in SUBSET Coords(rows, cols) :
          \E aliveTime \in 0 .. GenTime, deadTime \in 0 .. GenTime :
              cells = Population(rows, cols, alive, aliveTime, deadTime)
    /\ sleep \in {NewSleep, set_sleep(10)}
    /\ NothingObserved
    /\ NoThreads

GenNext == UpdateGrid(GenTime)

SpecGen == GenInit /\ [][GenNext]_vars

----------------------------------------------------------------------------
(* SpecRuns: runs of consecutive update_grid calls from any population     *)
(* whose cells all have alive time 0                                       *)

RunsInit ==
    /\ \E d \in Dims(GenSide, GenCells) : rows = d[1] /\ cols = d[2]
    /\ \E alive \in SUBSET Coords(rows, cols) :
          cells = Population(rows, cols, alive, 0, 0)
    /\ sleep = NewSleep
    /\ NothingObserved
    /\ NoThreads

RunsNext == UpdateGrid(MaxGen)

SpecRuns == RunsInit /\ [][RunsNext]_vars

----------------------------------------------------------------------------
(* SpecRead: alive_neighbors called on every cell of any population *)

ReadInit ==
    /\ \E d \in Dims(GenSide, GenCells) : rows = d[1] /\ cols = d[2]
    /\ \E alive \in SUBSET Coords(rows, cols) :
          cells = Population(rows, cols, alive, 0, 0)
    /\ sleep = NewSleep
    /\ NothingObserved
    /\ NoThreads

ReadNext == \E rc \in Coords(rows, cols) : AliveNeighbors(rc[1], rc[2])

SpecRead == ReadInit /\ [][ReadNext]_vars

----------------------------------------------------------------------------
(* SpecBlinker: generations of the blinker (1,1), (1,2), (1,3) on grids of  *)
(* at least 3 rows and 5 columns, whatever the alive times                 *)

BlinkerRow == {<<1, 1>>, <<1, 2>>, <<1, 3>>}

BlinkerColumn == {<<0, 2>>, <<1, 2>>, <<2, 2>>}

BlinkerInit ==
    /\ rows \in 3 .. 3 + BlinkerPad
    /\ cols \in 5 .. 5 + BlinkerPad
    /\ \E aliveTime \in 0 .. GenTime, deadTime \in 0 .. GenTime :
          cells = Population(rows, cols, BlinkerRow, aliveTime, deadTime)
    /\ sleep = NewSleep
    /\ NothingObserved
    /\ NoThreads

BlinkerNext == UpdateGrid(GenTime)

SpecBlinker == BlinkerInit /\ [][BlinkerNext]_vars

----------------------------------------------------------------------------
(* SpecAccess: get_cell called with indices in and around the grid, on     *)
(* grids whose cells have been toggled                                     *)

AccessNext ==
    \/ \E rc \in Coords(rows, cols) : ToggleValue(rc)
    \/ \E row \in -(rows + IndexPad) .. rows - 1 + IndexPad :
          \E col \in -(cols + IndexPad) .. cols - 1 + IndexPad : GetCell(row, col)

SpecAccess == Init /\ [][AccessNext]_vars

----------------------------------------------------------------------------
(* SpecRate: set_sleep called with whole numbers of frames per second and  *)
(* get_sleep, on a fresh grid                                              *)

RateNext ==
    \/ \E fps \in 1 .. MaxFps : SetSleep(fps)
    \/ GetSleep

SpecRate == Init /\ [][RateNext]_vars

----------------------------------------------------------------------------
(* SpecRace: the thread of state_loop and the foreground thread on one     *)
(* grid.  The code takes no lock, so the threads interleave between any    *)
(* two calls on a cell; a step here is one such call, or one loop test.    *)

Order == RowMajor(rows, cols)

CellsUnchanged == UNCHANGED <<rows, cols, sleep, cells>> /\ UNCHANGED obsVars

Foreground == UNCHANGED <<loop_pc, list_of_changes, idx>>

Background == UNCHANGED <<window_event, game_event, fg_pc, fg_idx>>

\* state_loop line 148: while window_event.is_set()
LoopWindowTest ==
    /\ loop_pc = "outer"
    /\ loop_pc' = IF window_event THEN "inner" ELSE "stopped"
    /\ UNCHANGED <<list_of_changes, idx>>
    /\ CellsUnchanged /\ Background

\* the inner loop without its test of game_event
LoopGameTestSkipped ==
    /\ loop_pc = "inner"
    /\ loop_pc' = "inner window"
    /\ UNCHANGED <<list_of_changes, idx>>
    /\ CellsUnchanged /\ Background

\* state_loop line 149, left operand: game_event.is_set()
LoopGameTest ==
    /\ loop_pc = "inner"
    /\ loop_pc' = IF game_event THEN "inner window" ELSE "idle"
    /\ UNCHANGED <<list_of_changes, idx>>
    /\ CellsUnchanged /\ Background

\* the inner loop without its test of window_event
LoopInnerWindowTestSkipped ==
    /\ loop_pc = "inner window"
    /\ loop_pc' = "call update"
    /\ UNCHANGED <<list_of_changes, idx>>
    /\ CellsUnchanged /\ Background

\* state_loop line 149, right operand: window_event.is_set()
LoopInnerWindowTest ==
    /\ loop_pc = "inner window"
    /\ loop_pc' = IF window_event THEN "call update" ELSE "idle"
    /\ UNCHANGED <<list_of_changes, idx>>
    /\ CellsUnchanged /\ Background

\* state_loop line 150: update_grid is called; its line 103 makes the empty
\* lists
LoopEnterUpdate ==
    /\ loop_pc = "call update"
    /\ loop_pc' = "compute"
    /\ list_of_changes' = NoChanges
    /\ idx' = 1
    /\ CellsUnchanged /\ Background

\* update_grid lines 105-115: one cell of the compute phase, or its end
UpdateCompute ==
    /\ loop_pc = "compute"
    /\ IF idx <= Len(Order)
       THEN LET kind == Classify(cells, rows, cols, Order[idx])
            IN /\ list_of_changes' =
                     IF kind = "none" THEN list_of_changes
                     ELSE [list_of_changes EXCEPT ![kind] = Append(@, Order[idx])]
               /\ idx' = idx + 1
               /\ UNCHANGED loop_pc
       ELSE loop_pc' = "birth" /\ idx' = 1 /\ UNCHANGED list_of_changes
    /\ CellsUnchanged /\ Background

\* update_grid lines 117-118: one newborn cell toggled, or the end of the list
UpdateBirth ==
    /\ loop_pc = "birth"
    /\ IF idx <= Len(list_of_changes["birth"])
       THEN LET rc == list_of_changes["birth"][idx]
            IN /\ cells' = [cells EXCEPT ![rc] = toggle_value(cells[rc]).self]
               /\ idx' = idx + 1
               /\ UNCHANGED loop_pc
       ELSE loop_pc' = "survival" /\ idx' = 1 /\ UNCHANGED cells
    /\ UNCHANGED <<rows, cols, sleep, list_of_changes>>
    /\ UNCHANGED obsVars /\ Background

\* update_grid lines 120-121: one surviving cell's time increased, or the
\* end of the list
UpdateSurvival(cap) ==
    /\ loop_pc = "survival"
    /\ IF idx <= Len(list_of_changes["survival"])
       THEN LET rc == list_of_changes["survival"][idx]
            IN /\ cells[rc].alive_time < cap
               /\ cells' = [cells EXCEPT ![rc] = increase_time(cells[rc]).self]
               /\ idx' = idx + 1
               /\ UNCHANGED loop_pc
       ELSE loop_pc' = "death" /\ idx' = 1 /\ UNCHANGED cells
    /\ UNCHANGED <<rows, cols, sleep, list_of_changes>>
    /\ UNCHANGED obsVars /\ Background

\* the end of update_grid followed by the next test of the inner loop at
\* once, without the sleep of line 151
UpdateDeathToggleNoSleep ==
    /\ loop_pc = "death"
    /\ IF idx <= Len(list_of_changes["death"])
       THEN LET rc == list_of_changes["death"][idx]
            IN /\ cells' = [cells EXCEPT ![rc] = toggle_value(cells[rc]).self]
               /\ loop_pc' = "death reset"
               /\ UNCHANGED <<idx, list_of_changes>>
       ELSE /\ loop_pc' = "inner"
            /\ idx' = 0
            /\ list_of_changes' = NoChanges
            /\ UNCHANGED cells
    /\ UNCHANGED <<rows, cols, sleep>>
    /\ UNCHANGED obsVars /\ Background

\* update_grid lines 123-124: one dying cell toggled, or the end of the list
\* and of update_grid, and state_loop goes to sleep (line 151)
UpdateDeathToggle ==
    /\ loop_pc = "death"
    /\ IF idx <= Len(list_of_changes["death"])
       THEN LET rc == list_of_changes["death"][idx]
            IN /\ cells' = [cells EXCEPT ![rc] = toggle_value(cells[rc]).self]
               /\ loop_pc' = "death reset"
               /\ UNCHANGED <<idx, list_of_changes>>
       ELSE /\ loop_pc' = "sleep"
            /\ idx' = 0
            /\ list_of_changes' = NoChanges
            /\ UNCHANGED cells
    /\ UNCHANGED <<rows, cols, sleep>>
    /\ UNCHANGED obsVars /\ Background

\* update_grid line 125: the time of the cell just toggled is reset
UpdateDeathReset ==
    /\ loop_pc = "death reset"
    /\ LET rc == list_of_changes["death"][idx]
       IN cells' = [cells EXCEPT ![rc] = reset_time(cells[rc]).self]
    /\ loop_pc' = "death"
    /\ idx' = idx + 1
    /\ UNCHANGED <<rows, cols, sleep, list_of_changes>>
    /\ UNCHANGED obsVars /\ Background

\* state_loop line 151: sleep(self._sleep) is over
LoopSleep ==
    /\ loop_pc = "sleep"
    /\ loop_pc' = "inner"
    /\ UNCHANGED <<list_of_changes, idx>>
    /\ CellsUnchanged /\ Background

\* state_loop line 152: sleep(0.1) is over
LoopIdle ==
    /\ loop_pc = "idle"
    /\ loop_pc' = "outer"
    /\ UNCHANGED <<list_of_changes, idx>>
    /\ CellsUnchanged /\ Background

\* The foreground thread calls Grid.reset (line 54: the loops begin)
ResetCall ==
    /\ window_event /\ fg_pc = "idle"
    /\ fg_pc' = "reset"
    /\ fg_idx' = 1
    /\ UNCHANGED <<window_event, game_event>>
    /\ CellsUnchanged /\ Foreground

\* Grid.reset lines 56-58: the test of one cell, or the end of reset
ResetTest ==
    /\ fg_pc = "reset"
    /\ IF fg_idx > Len(Order) THEN fg_pc' = "idle" /\ fg_idx' = 0
       ELSE IF get_value(cells[Order[fg_idx]]) = 1
            THEN fg_pc' = "reset toggle" /\ UNCHANGED fg_idx
            ELSE fg_idx' = fg_idx + 1 /\ UNCHANGED fg_pc
    /\ UNCHANGED <<window_event, game_event>>
    /\ CellsUnchanged /\ Foreground

\* Grid.reset line 59: the cell found alive is toggled
ResetToggle ==
    /\ fg_pc = "reset toggle"
    /\ cells' = [cells EXCEPT ![Order[fg_idx]] = toggle_value(cells[Order[fg_idx]]).self]
    /\ fg_pc' = "reset"
    /\ fg_idx' = fg_idx + 1
    /\ UNCHANGED <<rows, cols, sleep, window_event, game_event>>
    /\ UNCHANGED obsVars /\ Foreground

\* The foreground thread restores a cell that is dead, first half:
\* set_time(value) (line 219: "we call toggle_value after this")
RestoreSetTime(i, value) ==
    /\ window_event /\ fg_pc = "idle"
    /\ get_value(cells[Order[i]]) = 0
    /\ cells' = [cells EXCEPT ![Order[i]] = set_time(cells[Order[i]], value).self]
    /\ fg_pc' = "restore toggle"
    /\ fg_idx' = i
    /\ UNCHANGED <<rows, cols, sleep, window_event, game_event>>
    /\ UNCHANGED obsVars /\ Foreground

\* The restore of a cell, second half: toggle_value()
RestoreToggle ==
    /\ fg_pc = "restore toggle"
    /\ cells' = [cells EXCEPT ![Order[fg_idx]] = toggle_value(cells[Order[fg_idx]]).self]
    /\ fg_pc' = "idle"
    /\ fg_idx' = 0
    /\ UNCHANGED <<rows, cols, sleep, window_event, game_event>>
    /\ UNCHANGED obsVars /\ Foreground

\* The foreground thread starts or pauses the game: game_event.set() / clear()
GameEventSwitch ==
    /\ window_event /\ fg_pc = "idle"
    /\ game_event' = ~game_event
    /\ UNCHANGED <<window_event, fg_pc, fg_idx>>
    /\ CellsUnchanged /\ Foreground

\* The main window is closed: window_event.clear()
WindowEventClear ==
    /\ window_event /\ fg_pc = "idle"
    /\ window_event' = FALSE
    /\ UNCHANGED <<game_event, fg_pc, fg_idx>>
    /\ CellsUnchanged /\ Foreground

RaceInit ==
    /\ Fresh(Dims(RaceSide, RaceCells))
    /\ window_event = TRUE
    /\ game_event \in BOOLEAN
    /\ loop_pc = "outer"
    /\ list_of_changes = NoChanges
    /\ idx = 0
    /\ fg_pc = "idle"
    /\ fg_idx = 0

RaceNext ==
    \/ LoopWindowTest
    \/ LoopGameTest
    \/ LoopInnerWindowTest
    \/ LoopEnterUpdate
    \/ UpdateCompute
    \/ UpdateBirth
    \/ UpdateSurvival(MaxTime)
    \/ UpdateDeathToggle
    \/ UpdateDeathReset
    \/ LoopSleep
    \/ LoopIdle
    \/ ResetCall
    \/ ResetTest
    \/ ResetToggle
    \/ \E i \in 1 .. Len(Order) : \E value \in 0 .. MaxTime : RestoreSetTime(i, value)
    \/ RestoreToggle
    \/ GameEventSwitch
    \/ WindowEventClear

SpecRace == RaceInit /\ [][RaceNext]_vars

----------------------------------------------------------------------------
(* SpecLoop: the thread of state_loop while the foreground sets and clears *)
(* the events and resets the grid, with the thread scheduled fairly.  The  *)
(* grids are single rows and single columns with any population: on these  *)
(* every run of alive cells shrinks from both ends at each update, so the  *)
(* alive times stay below the length of the grid and the loop can run      *)
(* forever within finitely many states.  (A restore can revive cells       *)
(* forever and is left to SpecRace.)                                       *)

Lines(n) == {<<1, k>> : k \in 1 .. n} \cup {<<k, 1>> : k \in 1 .. n}

LoopInit ==
    /\ \E d \in Lines(LoopCells) : rows = d[1] /\ cols = d[2]
    /\ \E alive \in SUBSET Coords(rows, cols) :
          cells = Population(rows, cols, alive, 0, 0)
    /\ sleep = NewSleep
    /\ NothingObserved
    /\ window_event = TRUE
    /\ game_event \in BOOLEAN
    /\ loop_pc = "outer"
    /\ list_of_changes = NoChanges
    /\ idx = 0
    /\ fg_pc = "idle"
    /\ fg_idx = 0

\* A step of the thread that runs state_loop
LoopThread ==
    \/ LoopWindowTest
    \/ LoopGameTest
    \/ LoopInnerWindowTest
    \/ LoopEnterUpdate
    \/ UpdateCompute
    \/ UpdateBirth
    \/ UpdateSurvival(LoopCells)
    \/ UpdateDeathToggle
    \/ UpdateDeathReset
    \/ LoopSleep
    \/ LoopIdle

LoopNext ==
    \/ LoopThread
    \/ ResetCall
    \/ ResetTest
    \/ ResetToggle
    \/ GameEventSwitch
    \/ WindowEventClear

\* The thread is a thread of the operating system: it is scheduled again and
\* again, and its sleeps end
SpecLoop == LoopInit /\ [][LoopNext]_vars /\ WF_vars(LoopThread)

----------------------------------------------------------------------------
(* Properties *)

Alive(g) == {rc \in DOMAIN g : g[rc].value = 1}

Dead(g) == {rc \in DOMAIN g : g[rc].value = 0}

\* The cells a sequence of signals comes from
Signalled(out) == {<<out[i].row, out[i].col>> : i \in 1 .. Len(out)}

\* Signals that come from pairwise different cells
OncePerCell(out) == Cardinality(Signalled(out)) = Len(out)

\* C1 as stated: in every state reachable through the operations of Cell and
\* Grid from a fresh grid, every cell with value 0 has alive time 0.
C1_DurationInvariant ==
    \A rc \in Coords(rows, cols) : cells[rc].value = 0 => cells[rc].alive_time = 0

\* The step is a set_time or increase_time call on a cell that is dead
TimeOfDeadCellChanged ==
    /\ op' \in {"set_time", "increase_time"}
    /\ \E rc \in Coords(rows, cols) :
          cells[rc].value = 0 /\ cells'[rc].alive_time # cells[rc].alive_time

\* C1 amended: every operation of Cell and Grid preserves "value 0 implies
\* alive time 0", except set_time and increase_time called on a dead cell;
\* so it holds in every state reached without such a call.
C1_InvariantPreserved ==
    [][(C1_DurationInvariant /\ ~TimeOfDeadCellChanged) => C1_DurationInvariant']_vars

\* C1 witness: update_grid has killed a cell that had an alive time, and
\* every dead cell has alive time 0.
C1_Witness ==
    /\ op = "update_grid"
    /\ C1_DurationInvariant
    /\ \E rc \in Coords(rows, cols) :
          pre[rc].value = 1 /\ pre[rc].alive_time > 0 /\ cells[rc].value = 0

\* The signals reset emits: one (0, 0) for each cell that was alive
ResetSignals ==
    /\ Signalled(emitted) = Alive(pre)
    /\ OncePerCell(emitted)
    /\ \A i \in 1 .. Len(emitted) : emitted[i].value = 0 /\ emitted[i].alive_time = 0

\* reset on a grid with no alive cell changes nothing and emits nothing, and
\* a second reset right after a reset is such a call
ResetIdempotent ==
    /\ Alive(pre) = {} => cells = pre /\ emitted = <<>>
    /\ reset(cells, rows, cols) = [cells |-> cells, out |-> <<>>]

\* The Moore neighbourhood of a cell: the cells of the grid at most one row
\* and one column away, the cell itself excluded
Moore(rc) ==
    {n \in Coords(rows, cols) :
        /\ n # rc
        /\ n[1] - rc[1] \in {-1, 0, 1}
        /\ n[2] - rc[2] \in {-1, 0, 1}}

\* The number of alive cells in the Moore neighbourhood of a cell of grid g
AliveAround(g, rc) == Cardinality({n \in Moore(rc) : g[n].value = 1})

\* The value Conway's rule gives a cell in the generation after g
LifeStep(g, rc) ==
    IF \/ g[rc].value = 1 /\ AliveAround(g, rc) \in {2, 3}
       \/ g[rc].value = 0 /\ AliveAround(g, rc) = 3
    THEN 1 ELSE 0

\* C2: after update_grid every cell has the value of the synchronous step
\* computed from the generation before the call: alive iff it was alive with
\* 2 or 3 alive neighbours or dead with exactly 3, counted before the call.
C2_SimultaneousUpdate ==
    op = "update_grid" =>
        \A rc \in Coords(rows, cols) : cells[rc].value = LifeStep(pre, rc)

\* C2 witness: update_grid has made a birth and a death next to each other,
\* so a count taken after either change would differ.
C2_Witness ==
    /\ op = "update_grid"
    /\ \E b \in Dead(pre) \cap Alive(cells) : \E d \in Alive(pre) \cap Dead(cells) :
          d \in Moore(b)

\* C4 as stated: a dead cell with exactly 3 alive neighbours before
\* update_grid has value 1 and alive time 0 after it.
C4_BirthWithZeroTime ==
    op = "update_grid" =>
        \A rc \in Coords(rows, cols) :
            pre[rc].value = 0 /\ AliveAround(pre, rc) = 3
                => cells[rc].value = 1 /\ cells[rc].alive_time = 0

\* C4 amended: a dead cell with exactly 3 alive neighbours before update_grid
\* has value 1 after it and the alive time it had before (0 for a cell that
\* satisfied "value 0 implies alive time 0").
C4_BirthKeepsTime ==
    op = "update_grid" =>
        \A rc \in Coords(rows, cols) :
            pre[rc].value = 0 /\ AliveAround(pre, rc) = 3
                => cells[rc].value = 1 /\ cells[rc].alive_time = pre[rc].alive_time

\* C4 witness: update_grid has made alive a dead cell that had 3 alive
\* neighbours and an alive time, next to a cell that survived.
C4_Witness ==
    /\ op = "update_grid"
    /\ \E rc \in Dead(pre) :
          /\ AliveAround(pre, rc) = 3
          /\ pre[rc].alive_time > 0
          /\ cells[rc] = [value |-> 1, alive_time |-> pre[rc].alive_time]
          /\ \E n \in Moore(rc) : pre[n].value = 1 /\ cells[n].alive_time = 1

\* C5: an alive cell with 2 or 3 alive neighbours before update_grid has
\* value 1 after it and its alive time is one more than before.
C5_Survival ==
    op = "update_grid" =>
        \A rc \in Coords(rows, cols) :
            pre[rc].value = 1 /\ AliveAround(pre, rc) \in {2, 3}
                => cells[rc].value = 1 /\ cells[rc].alive_time = pre[rc].alive_time + 1

\* C5 witness: update_grid has kept alive a cell with 2 and a cell with 3
\* alive neighbours, one of them with an alive time already.
C5_Witness ==
    /\ op = "update_grid"
    /\ \E rc \in Alive(pre) : AliveAround(pre, rc) = 2 /\ cells[rc].alive_time = 1
    /\ \E rc \in Alive(pre) : AliveAround(pre, rc) = 3 /\ cells[rc].alive_time = 2

\* C6: an alive cell whose count of alive neighbours before update_grid is
\* not 2 or 3 has value 0 and alive time 0 after it.
C6_Death ==
    op = "update_grid" =>
        \A rc \in Coords(rows, cols) :
            pre[rc].value = 1 /\ AliveAround(pre, rc) \notin {2, 3}
                => cells[rc].value = 0 /\ cells[rc].alive_time = 0

\* C6 witness: update_grid has killed a cell with fewer than 2 and a cell
\* with more than 3 alive neighbours, both with an alive time.
C6_Witness ==
    /\ op = "update_grid"
    /\ \E rc \in Alive(pre) :
          AliveAround(pre, rc) < 2 /\ pre[rc].alive_time > 0 /\ cells[rc] = NewCell
    /\ \E rc \in Alive(pre) :
          AliveAround(pre, rc) > 3 /\ pre[rc].alive_time > 0 /\ cells[rc] = NewCell

\* A cell in a corner of the grid, a cell on an edge of the grid
Corner(rc) == rc[1] \in {0, rows - 1} /\ rc[2] \in {0, cols - 1}

Edge(rc) == rc[1] \in {0, rows - 1} \/ rc[2] \in {0, cols - 1}

\* C7: alive_neighbors(row, col) returns the number of alive cells among the
\* positions of the grid next to (row, col), itself excluded: between 0 and
\* 8, without wraparound, at most 3 in a corner and at most 5 on an edge.
C7_AliveNeighbors ==
    op = "alive_neighbors" =>
        LET rc == <<result.row, result.col>>
        IN /\ result.count = AliveAround(cells, rc)
           /\ result.count \in 0 .. 8
           /\ Corner(rc) => result.count <= 3
           /\ Edge(rc) => result.count <= 5

\* C7 witness: alive_neighbors has returned 3 for the corner (0, 0) of a
\* grid of 3 rows and 3 columns whose opposite edges hold alive cells.
C7_Witness ==
    /\ op = "alive_neighbors"
    /\ rows = 3 /\ cols = 3
    /\ result.row = 0 /\ result.col = 0 /\ result.count = 3
    /\ cells[<<2, 2>>].value = 1 /\ cells[<<0, 2>>].value = 1 /\ cells[<<2, 0>>].value = 1

\* C8: from a grid of at least 3 rows and 5 columns whose alive cells are
\* (1,1), (1,2), (1,3), the alive cells are (0,2), (1,2), (2,2) after one
\* update_grid call, and (1,1), (1,2), (1,3) again after a second: after an
\* odd number of calls the column, after an even number the row.
C8_Blinker ==
    /\ gen % 2 = 1 => Alive(cells) = BlinkerColumn
    /\ gen % 2 = 0 => Alive(cells) = BlinkerRow

\* C8 witness: the second update_grid call has brought the row back.
C8_Witness ==
    /\ op = "update_grid"
    /\ gen = 2
    /\ Alive(pre) = BlinkerColumn
    /\ Alive(cells) = BlinkerRow

\* C10 as stated: get_cell(row, col) returns the cell at (row, col) for
\* 0 <= row < rows and 0 <= col < cols, and fails with an out-of-bounds
\* error for every other row or col, negative ones included.
C10_GetCellBounds ==
    op = "get_cell" =>
        IF <<result.row, result.col>> \in Coords(rows, cols)
        THEN result.kind = "cell" /\ result.at = <<result.row, result.col>>
        ELSE result.kind = "IndexError"

\* C3 as stated: whatever the interleaving of the foreground reset or
\* restore with the update_grid of state_loop, no dead cell has a nonzero
\* alive time.  The cell the foreground is restoring, between its set_time
\* and its toggle_value, is left out: that state is the restore's own.
C3_RaceFreedom ==
    \A i \in 1 .. Len(Order) :
        /\ cells[Order[i]].value = 0
        /\ ~(fg_pc = "restore toggle" /\ fg_idx = i)
        => cells[Order[i]].alive_time = 0

UpdatePcs == {"compute", "birth", "survival", "death", "death reset"}

\* The step is the call of update_grid at line 150
UpdateStarts == loop_pc \notin UpdatePcs /\ loop_pc' \in UpdatePcs

\* The step is a loop test of line 149 that lets the iteration go on
WindowTestPasses == loop_pc = "inner window" /\ loop_pc' = "call update"

GameTestPasses == loop_pc = "inner" /\ loop_pc' = "inner window"

\* Once window_event is cleared state_loop returns, and it never resumes
Stops ==
    /\ ~window_event ~> loop_pc = "stopped"
    /\ [][loop_pc = "stopped" => loop_pc' = "stopped"]_vars

\* An update_grid call that has begun runs to its end, whatever the events
NoInterruption ==
    [][(loop_pc \in UpdatePcs) => (loop_pc' \in UpdatePcs \cup {"sleep"})]_vars

\* C11 as stated: once window_event is cleared, state_loop returns after
\* finishing at most the update_grid call in progress, without interruption,
\* and starts no further update_grid call.
C11_StopIsTerminal ==
    /\ Stops
    /\ NoInterruption
    /\ [][UpdateStarts => window_event]_vars

\* C11 amended: once window_event is cleared, state_loop returns; no test of
\* window_event passes any more, so the only update_grid call that can still
\* start is the one of an iteration whose test had passed before the clear
\* (the call follows the test at line 149 with no second look at the event);
\* a call that has begun runs to its end.
C11_StopAfterIteration ==
    /\ Stops
    /\ NoInterruption
    /\ [][WindowTestPasses => window_event]_vars
    /\ [][UpdateStarts => loop_pc = "call update"]_vars
    /\ [][loop_pc' = "call update" => loop_pc = "call update" \/ WindowTestPasses]_vars

\* C11 witness: state_loop has returned with window_event cleared and
\* game_event set, after an update_grid call in which a cell survived.
C11_Witness ==
    /\ loop_pc = "stopped"
    /\ ~window_event
    /\ game_event
    /\ \E rc \in Coords(rows, cols) : cells[rc].alive_time > 0

\* Where the thread of state_loop is from the moment both tests of line 149
\* have passed to the end of the update_grid call: a tick that has begun
TickPcs == UpdatePcs \cup {"call update"}

\* C12: an update_grid call starts only in an iteration whose tests at line
\* 149 found game_event set and then window_event set; so a loop started
\* with game_event unset makes no call until it is set, and once game_event
\* is cleared for good at most the tick already begun completes and then
\* no tick is ever in progress again.
C12_PauseSafety ==
    /\ [][GameTestPasses => game_event]_vars
    /\ [][WindowTestPasses => window_event]_vars
    /\ [][(loop_pc' = "inner window") => (loop_pc = "inner window" \/ GameTestPasses)]_vars
    /\ [][(loop_pc' = "call update") => (loop_pc = "call update" \/ WindowTestPasses)]_vars
    /\ [][UpdateStarts => loop_pc = "call update"]_vars
    /\ <>[](~game_event) => <>[](loop_pc \notin TickPcs)

\* C12 witness: the loop is paused (game_event cleared, window_event set,
\* the thread in the sleep of line 152) after a tick in which a cell survived.
C12_Witness ==
    /\ loop_pc = "idle"
    /\ ~game_event
    /\ window_event
    /\ \E rc \in Coords(rows, cols) : cells[rc].alive_time > 0

\* The step is a toggle_value call on the cell at rc
Toggles(rc) ==
    /\ op' = "toggle_value"
    /\ cells'[rc].value # cells[rc].value

\* C13: a toggle_value call flips the value of its cell, touches no other
\* cell, and emits exactly one signal, which carries the value and the alive
\* time the cell has after the call: alive time 0 with value 0, the alive
\* time the cell had with value 1.
C13_ToggleNotifiesOnce ==
    [][(op' = "toggle_value") =>
          \E rc \in Coords(rows, cols) :
              /\ Toggles(rc)
              /\ \A other \in Coords(rows, cols) \ {rc} : cells'[other] = cells[other]
              /\ emitted' = <<[row |-> rc[1], col |-> rc[2],
                               value |-> cells'[rc].value,
                               alive_time |-> cells'[rc].alive_time]>>
              /\ cells'[rc].value = 0 => emitted'[1].alive_time = 0
              /\ cells'[rc].value = 1 => emitted'[1].alive_time = cells[rc].alive_time]_vars

\* C13 witness: toggle_value has killed a cell that had an alive time and
\* has signalled (0, 0).
C13_Witness ==
    /\ op = "toggle_value"
    /\ \E rc \in Coords(rows, cols) :
          /\ pre[rc].value = 1 /\ pre[rc].alive_time > 0
          /\ cells[rc] = NewCell
          /\ emitted = <<[row |-> rc[1], col |-> rc[2], value |-> 0, alive_time |-> 0]>>

\* C14: set_time(d) on a dead cell emits no signal, and a toggle_value call
\* on that cell right after it leaves the cell alive with alive time d and
\* emits exactly one signal, (1, d).
C14_RestorePairing ==
    [][(op = "set_time" /\ pre[<<result.row, result.col>>].value = 0
            /\ Toggles(<<result.row, result.col>>)) =>
          /\ emitted = <<>>
          /\ cells'[<<result.row, result.col>>] =
                 [value |-> 1, alive_time |-> result.value]
          /\ emitted' = <<[row |-> result.row, col |-> result.col,
                           value |-> 1, alive_time |-> result.value]>>]_vars

\* C14 witness: toggle_value has made alive a dead cell that had been given
\* an alive time, and has signalled it.
C14_Witness ==
    /\ op = "toggle_value"
    /\ \E rc \in Coords(rows, cols) :
          /\ pre[rc].value = 0 /\ pre[rc].alive_time > 0
          /\ cells[rc] = [value |-> 1, alive_time |-> pre[rc].alive_time]
          /\ emitted = <<[row |-> rc[1], col |-> rc[2],
                          value |-> 1, alive_time |-> pre[rc].alive_time]>>

\* ms thousandths of a second are 1/fps seconds rounded to three decimals:
\* no other number of thousandths is nearer to 1/fps
Rounded(ms, fps) ==
    LET away == IF ms * fps >= 1000 THEN ms * fps - 1000 ELSE 1000 - ms * fps
    IN 2 * away <= fps

\* C15: after set_sleep(fps) the sleep time is 1/fps rounded to three
\* decimals, 0.033 for fps 30 and 0.1 for fps 10, and a get_sleep call
\* right after it returns that time.
C15_RateConfiguration ==
    [][/\ (op' = "set_sleep") =>
              /\ Rounded(sleep', result'.fps)
              /\ result'.fps = 30 => sleep' = 33
              /\ result'.fps = 10 => sleep' = 100
       /\ (op' = "get_sleep") => result'.sleep = sleep /\ sleep' = sleep
       /\ (op = "set_sleep" /\ op' = "get_sleep") => Rounded(result'.sleep, result.fps)]_vars

\* C15 witness: get_sleep has returned 0.033, which only set_sleep(30) sets.
C15_Witness ==
    /\ op = "get_sleep"
    /\ result.sleep = 33
    /\ sleep = 33

\* C20 as stated: on a grid on which set_sleep has never been called,
\* get_sleep returns 0.033, the sleep time set_sleep(30) sets.
C20_DefaultIsRateThirty ==
    op = "get_sleep" => result.sleep = 33 /\ result.sleep = set_sleep(30)

\* C20 amended: on a grid on which set_sleep has never been called,
\* get_sleep returns 0.03, whatever else has been called: the sleep time
\* set_sleep sets for 33 frames per second, 0.003 less than the 0.033 it
\* sets for 30.
C20_DefaultIsThirtyMillis ==
    op = "get_sleep" =>
        /\ result.sleep = 30
        /\ result.sleep = set_sleep(33)
        /\ set_sleep(30) = result.sleep + 3

\* C20 witness: get_sleep has returned 0.03 on a grid with an alive cell.
C20_Witness ==
    /\ op = "get_sleep"
    /\ result.sleep = 30
    /\ \E rc \in Coords(rows, cols) : cells[rc].value = 1

\* What the generation g has in store for the cell at rc: 1 a birth, 2 a
\* survival, 3 a death, 0 nothing
Fate(g, rc) ==
    IF g[rc].value = 0 THEN (IF AliveAround(g, rc) = 3 THEN 1 ELSE 0)
    ELSE IF AliveAround(g, rc) \in {2, 3} THEN 2 ELSE 3

\* The fate, in the generation before the call, of the cell the i-th signal
\* of the call comes from
FateOfSignal(i) == Fate(pre, <<emitted[i].row, emitted[i].col>>)

\* C16: the signals of one update_grid call come in commit order: those of
\* the births (value 1) first, then those of the survivals (the alive time
\* one more than before), then those of the deaths (0, 0); and the cells
\* changed are those that the generation before the call marks for a
\* change, so no change was made before every cell was classified.
C16_CommitOrder ==
    op = "update_grid" =>
        /\ \A i, j \in 1 .. Len(emitted) : i < j => FateOfSignal(i) <= FateOfSignal(j)
        /\ \A i \in 1 .. Len(emitted) :
              LET rc == <<emitted[i].row, emitted[i].col>>
              IN /\ FateOfSignal(i) = 1 => emitted[i].value = 1
                 /\ FateOfSignal(i) = 2 =>
                        emitted[i].value = 1 /\ emitted[i].alive_time = pre[rc].alive_time + 1
                 /\ FateOfSignal(i) = 3 =>
                        emitted[i].value = 0 /\ emitted[i].alive_time = 0
        /\ Signalled(emitted) = {rc \in Coords(rows, cols) : Fate(pre, rc) # 0}
        /\ \A rc \in Coords(rows, cols) : Fate(pre, rc) = 0 => cells[rc] = pre[rc]

\* C16 witness: an update_grid call has signalled a birth, then a survival,
\* then a death, the cell born lying after the cell that died in loop order.
C16_Witness ==
    /\ op = "update_grid"
    /\ \E i, j, k \in 1 .. Len(emitted) :
          /\ i < j /\ j < k
          /\ FateOfSignal(i) = 1 /\ FateOfSignal(j) = 2 /\ FateOfSignal(k) = 3
          /\ emitted[k].row < emitted[i].row

UpdateBegun == loop_pc = "compute" /\ idx = 1

\* C18: if from some moment on window_event and game_event are both set,
\* state_loop, scheduled fairly, calls update_grid again and again; and
\* every update_grid call that returns is followed by the sleep of the tick
\* interval, which ends before the loop tests the events for the next call.
C18_ResumeAndProgress ==
    /\ <>[](window_event /\ game_event) => []<>UpdateBegun
    /\ [][(loop_pc \in UpdatePcs /\ loop_pc' \notin UpdatePcs) => loop_pc' = "sleep"]_vars
    /\ [][(loop_pc = "sleep") => (loop_pc' \in {"sleep", "inner"})]_vars
    /\ [][GameTestPasses \/ WindowTestPasses \/ UpdateStarts
             => loop_pc \in {"inner", "inner window", "call update"}]_vars

\* C18 witness: with both events set, state_loop has called update_grid
\* after an earlier call in which a cell survived.
C18_Witness ==
    /\ UpdateBegun
    /\ window_event /\ game_event
    /\ \E rc \in Coords(rows, cols) : cells[rc].alive_time > 0

\* How many of the signals in out come from the cell at rc
SignalsFrom(out, rc) ==
    Cardinality({i \in 1 .. Len(out) : <<out[i].row, out[i].col>> = rc})

\* C19: an update_grid call leaves a dead cell whose count of alive
\* neighbours before the call is not 3 as it was, value 0 and alive time
\* unchanged, without a signal; every other cell (born, surviving or dying)
\* emits exactly one signal; and the dimensions of the grid and the sleep
\* time are unchanged.
C19_UpdateFrame ==
    [][(op' = "update_grid") =>
          /\ \A rc \in Coords(rows, cols) :
                IF Fate(cells, rc) = 0
                THEN /\ cells'[rc] = cells[rc]
                     /\ cells'[rc].value = 0
                     /\ SignalsFrom(emitted', rc) = 0
                ELSE SignalsFrom(emitted', rc) = 1
          /\ rows' = rows /\ cols' = cols
          /\ DOMAIN cells' = Coords(rows, cols)
          /\ sleep' = sleep]_vars

\* C19 witness: update_grid, on a grid whose sleep time set_sleep had set,
\* has left alone a dead cell that had an alive time, and has signalled a
\* birth, a survival and a death.
C19_Witness ==
    /\ op = "update_grid"
    /\ sleep # NewSleep
    /\ \E rc \in Coords(rows, cols) :
          Fate(pre, rc) = 0 /\ pre[rc].alive_time > 0 /\ cells[rc] = pre[rc]
    /\ \A fate \in 1 .. 3 : \E i \in 1 .. Len(emitted) : FateOfSignal(i) = fate

====
